---- MODULE Spec2Model ----
(***************************************************************************)
(* DataVisualizations (src/DataVisualizations.py): a class holding a data  *)
(* frame and an output directory, with four plotting methods that draw on  *)
(* pyplot's current figure, save it to a file and close it.                *)
(*                                                                         *)
(* A data frame is a sequence of rows, a row a record over Schema.         *)
(* outlier_cutoff is carried as an integer number of hundredths (25 is     *)
(* outlier_cutoff = 0.25), and a percentile as 100 times its value, so     *)
(* numpy's linear interpolation is computed exactly in the integers.       *)
(*                                                                         *)
(* What the libraries do, as modelled:                                     *)
(*  - pyplot keeps the open figures; plt.hist, plt.scatter and a pandas    *)
(*    Series.plot draw on the current one (creating it when none is open), *)
(*    DataFrame.plot and DataFrame.boxplot open a figure of their own;     *)
(*  - np.min / np.max of an empty pandas selection is nan, and plt.xlim /  *)
(*    plt.ylim raise ValueError on a nan limit;                            *)
(*  - an unknown column raises KeyError and an unknown plot kind           *)
(*    ValueError before anything is drawn;                                 *)
(*  - columns hold integers (no float rounding), and the rows of a sample  *)
(*    are kept in the order of the original frame.                         *)
(*                                                                         *)
(* files, dirs and figs are the file system and pyplot's figures; orig,    *)
(* subsample and calls record the constructor's arguments and the calls    *)
(* made so far.                                                            *)
(***************************************************************************)
EXTENDS Integers, Sequences, FiniteSets, TLC

VARIABLES df, output_directory, dirs, figs, files, orig, subsample, calls

vars == <<df, output_directory, dirs, figs, files, orig, subsample, calls>>

(* ------------------------------ bounds --------------------------------- *)

MaxRows == 3
MaxVal == 2
MaxBins == 2
MaxCalls == 2

(* ------------------------------ inputs --------------------------------- *)

Schema == {"age", "income", "color"}
NumericColumns == {"age", "income"}
ColumnNames == Schema \cup {"zip"}
Values == 0..MaxVal
CutoffPcts == {0, 25, 60}
Percents == {30, 50, 100}
OutputDirs == {"Output", "plots"}
Kinds == {"bar", "box", "foo"}
PlotKinds == {"bar", "box"}
CategoryOrder == <<"blue", "green", "red">>

RowKey(r) == r.age * (MaxVal + 1) + r.income

\* The data frames of at most n rows over the given rows, one per bag of rows
\* (rows in key order: no method below depends on the row order).
DataFrames(rows, n) ==
  UNION { { d \in [1..k -> rows] :
              \A i \in 1..k : \A j \in 1..k : i < j => RowKey(d[i]) <= RowKey(d[j]) }
          : k \in 0..n }

NumericFrames == DataFrames([age : Values, income : Values, color : {"red"}], MaxRows)

\* Fixture of the multi-call sessions: ages 20, 21, 21 (a sample of rows 2 and 3
\* has a constant age column) and two colours.
SessionFrame ==
  << [age |-> 20, income |-> 1, color |-> "red"],
     [age |-> 21, income |-> 3, color |-> "blue"],
     [age |-> 21, income |-> 0, color |-> "blue"] >>

\* The documented example: ages 20..29, histogram with nbins = 5.
AgeExample == [i \in 1..10 |-> [age |-> 19 + i, income |-> 0, color |-> "red"]]
AgeExampleCall == [column |-> "age", nbins |-> 5]

(* --------------------------- numpy / python ---------------------------- *)

SeqRange(s) == { s[i] : i \in 1..Len(s) }

\* self.df[column]
Column(d, column) == [i \in 1..Len(d) |-> d[i][column]]

np_max(x) == CHOOSE v \in SeqRange(x) : \A w \in SeqRange(x) : w <= v
np_min(x) == CHOOSE v \in SeqRange(x) : \A w \in SeqRange(x) : v <= w

\* range(start, stop, step), step > 0
py_range(start, stop, step) ==
  LET n == IF stop > start THEN (stop - start + step - 1) \div step ELSE 0
  IN  [i \in 1..n |-> start + (i - 1) * step]

\* 100 * np.percentile(x, q) for q in 0..100, x non-empty: numpy sorts x, takes
\* the virtual index q/100 * (n-1) and interpolates linearly between neighbours.
np_percentile100(x, q) ==
  LET s   == SortSeq(x, LAMBDA a, b : a < b)
      pos == q * (Len(s) - 1)
      i   == pos \div 100
      g   == pos % 100
  IN  IF g = 0 THEN 100 * s[i + 1]
      ELSE 100 * s[i + 1] + g * (s[i + 2] - s[i + 1])

\* x[x > np.percentile(x, q)] and x[x < np.percentile(x, q)]
AbovePercentile(x, q) == SelectSeq(x, LAMBDA v : 100 * v > np_percentile100(x, q))
BelowPercentile(x, q) == SelectSeq(x, LAMBDA v : 100 * v < np_percentile100(x, q))

(* ------------------------- visualize_numeric --------------------------- *)

\* Mutant: the range counted inclusively.
bin_width_inclusive(x, nbins) ==
  LET w == (np_max(x) - np_min(x) + 1) \div nbins
  IN  IF w = 0 THEN 1 ELSE w

\* bin_width = int((np.max(x) - np.min(x)) / nbins); 1 if that is 0
bin_width(x, nbins) ==
  LET w == (np_max(x) - np_min(x)) \div nbins
  IN  IF w = 0 THEN 1 ELSE w

\* Mutant: the first edge at the minimum itself.
hist_bins_from_min(x, nbins) ==
  py_range(np_min(x), np_max(x) + bin_width(x, nbins), bin_width(x, nbins))

\* bins = range(int(np.min(x) - 1), int(np.max(x) + bin_width), bin_width)
hist_bins(x, nbins) ==
  py_range(np_min(x) - 1, np_max(x) + bin_width(x, nbins), bin_width(x, nbins))

\* left = np.min(x[x > np.percentile(x, outlier_cutoff*100)])
outlier_low(x, cut) == np_min(AbovePercentile(x, cut))

\* right = np.max(x[x < np.percentile(x, (1-outlier_cutoff)*100)])
outlier_high(x, cut) == np_max(BelowPercentile(x, 100 - cut))

\* np.min / np.max of an empty selection is nan, which plt.xlim / plt.ylim
\* refuses (ValueError) before changing any limit.
limits_defined(x, cut) ==
  AbovePercentile(x, cut) # <<>> /\ BelowPercentile(x, 100 - cut) # <<>>

(* ------------------------------ pyplot --------------------------------- *)

Artist(kind, x, y, bins, labels, groups) ==
  [kind |-> kind, x |-> x, y |-> y, bins |-> bins, labels |-> labels, groups |-> groups]

NewFigure ==
  [artists |-> <<>>, xlim |-> <<>>, ylim |-> <<>>, title |-> "", xlabel |-> "", ylabel |-> ""]

\* plt.gcf(): the current figure is the last one opened; one is created when
\* none is open.
with_current(fs) == IF fs = <<>> THEN <<NewFigure>> ELSE fs

current(fs) == fs[Len(fs)]

on_current(fs, fig) == [fs EXCEPT ![Len(fs)] = fig]

\* plt.hist / plt.scatter: draw on the current figure
plt_draw(fs, artist) ==
  LET g == with_current(fs)
  IN  on_current(g, [current(g) EXCEPT !.artists = Append(@, artist)])

\* plt.close(): closes the current figure
plt_close(fs) == SubSeq(fs, 1, Len(fs) - 1)

\* savefig(path): the file at path now holds the figure
savefig(fsys, path, fig) ==
  [p \in DOMAIN fsys \cup {path} |-> IF p = path THEN fig ELSE fsys[p]]

(* --------------------------- call records ------------------------------ *)

PathSep == "/"

\* What a call leaves behind: the open figures, the files, and how it ended
\* (bin_width is visualize_numeric's local once computed, 0 otherwise).
Raised(fs, fsys, error, bw) ==
  [figs |-> fs, files |-> fsys, outcome |-> "error", error |-> error,
   path |-> "", bin_width |-> bw]

Returned(fs, fsys, path, bw) ==
  [figs |-> fs, files |-> fsys, outcome |-> "ok", error |-> "",
   path |-> path, bin_width |-> bw]

Call(op, column, other, kind, nbins, cut, res) ==
  [op |-> op, column |-> column, other |-> other, kind |-> kind, nbins |-> nbins,
   cut |-> cut, outcome |-> res.outcome, error |-> res.error, path |-> res.path,
   bin_width |-> res.bin_width]

NoCall ==
  [op |-> "none", column |-> "", other |-> "", kind |-> "", nbins |-> 0,
   cut |-> 0, outcome |-> "none", error |-> "", path |-> "", bin_width |-> 0]

\* The most recent call of the history.
Last == IF calls = <<>> THEN NoCall ELSE calls[Len(calls)]

(* ------------------------- visualize_numeric --------------------------- *)

\* Lines 41-48: the column lookup and the bin width raise before anything is
\* drawn (unknown column; str - str; int(nan) on an empty column; division by
\* nbins = 0 gives nan for a zero range and inf otherwise, which int() refuses).
numeric_error(d, column, nbins) ==
  IF column \notin Schema THEN "KeyError"
  ELSE IF column \notin NumericColumns THEN "TypeError"
  ELSE IF Len(d) = 0 THEN "ValueError"
  ELSE IF nbins = 0 /\ np_max(Column(d, column)) = np_min(Column(d, column)) THEN "ValueError"
  ELSE IF nbins = 0 THEN "OverflowError"
  ELSE ""

\* plt.hist(x, bins)
numeric_hist(d, fs, column, nbins) ==
  LET x == Column(d, column)
  IN  plt_draw(fs, Artist("hist", x, <<>>, hist_bins(x, nbins), <<>>, <<>>))

numeric_path(dir, column) == dir \o PathSep \o column \o ".png"

\* Mutant: the outliers are removed from the drawn data as well.
numeric_limited_trims(hist, x, cut) ==
  IF cut > 0
  THEN on_current(hist, [current(hist) EXCEPT
         !.xlim = <<outlier_low(x, cut), outlier_high(x, cut)>>,
         !.artists = [@ EXCEPT ![Len(@)].x =
            SelectSeq(x, LAMBDA v : outlier_low(x, cut) <= v /\ v <= outlier_high(x, cut))]])
  ELSE hist

\* Lines 55-58 when both selections are non-empty: plt.xlim(left, right)
numeric_limited(hist, x, cut) ==
  IF cut > 0
  THEN on_current(hist, [current(hist) EXCEPT
         !.xlim = <<outlier_low(x, cut), outlier_high(x, cut)>>])
  ELSE hist

\* Mutant: the figure is saved before the limits are set.
xlim_raised_after_save(hist, fsys, path, bw) ==
  Raised(hist, savefig(fsys, path, current(hist)), "ValueError", bw)

\* Lines 56-58 when a selection is empty: plt.xlim raises, after plt.hist and
\* before plt.savefig and plt.close.
xlim_raised(hist, fsys, path, bw) == Raised(hist, fsys, "ValueError", bw)

numeric_run(d, dir, fs, fsys, column, nbins, cut) ==
  LET x       == Column(d, column)
      hist    == numeric_hist(d, fs, column, nbins)
      limited == numeric_limited(hist, x, cut)
      shown   == on_current(limited, [current(limited) EXCEPT
                        !.title = "Distribution of data across " \o column,
                        !.xlabel = column,
                        !.ylabel = "Frequency"])
      path    == numeric_path(dir, column)
  IN  IF numeric_error(d, column, nbins) # ""
      THEN Raised(fs, fsys, numeric_error(d, column, nbins), 0)
      ELSE IF cut > 0 /\ ~limits_defined(x, cut)
      THEN xlim_raised(hist, fsys, path, bin_width(x, nbins))
      ELSE Returned(plt_close(shown), savefig(fsys, path, current(shown)), path,
                    bin_width(x, nbins))

visualize_numeric(column, nbins, outlier_cutoff) ==
  LET res == numeric_run(df, output_directory, figs, files, column, nbins, outlier_cutoff)
  IN  /\ figs' = res.figs
      /\ files' = res.files
      /\ calls' = Append(calls, Call("visualize_numeric", column, "", "", nbins, outlier_cutoff, res))
      /\ UNCHANGED <<df, output_directory, dirs, orig, subsample>>

(* ------------------------ pandas helpers ------------------------------- *)

Count(x, k) == Len(SelectSeq(x, LAMBDA v : v = k))

\* The distinct values of a column in ascending order (groupby sorts its keys).
group_keys(d, column) ==
  LET x == Column(d, column)
  IN  IF column \in NumericColumns
      THEN SelectSeq(py_range(np_min(x), np_max(x) + 1, 1), LAMBDA k : k \in SeqRange(x))
      ELSE SelectSeq(CategoryOrder, LAMBDA k : k \in SeqRange(x))

TickLabel(column, k) == IF column \in NumericColumns THEN ToString(k) ELSE k

\* self.df[column].value_counts(): the distinct values, most frequent first
value_counts(d, column) ==
  LET x  == Column(d, column)
      ks == SortSeq(group_keys(d, column), LAMBDA a, b : Count(x, a) > Count(x, b))
  IN  [labels |-> [i \in 1..Len(ks) |-> TickLabel(column, ks[i])],
       counts |-> [i \in 1..Len(ks) |-> Count(x, ks[i])]]

SumSeq(x) ==
  LET F[i \in 0..Len(x)] == IF i = 0 THEN 0 ELSE F[i - 1] + x[i]
  IN  F[Len(x)]

\* the dependent values of the rows whose independent value is k
group_values(d, dependent, independent, k) ==
  Column(SelectSeq(d, LAMBDA r : r[independent] = k), dependent)

(* ------------------------ visualize_categorical ------------------------ *)

\* Mutant: the chart kind left out of the file name.
categorical_path_no_kind(dir, column, kind) == dir \o PathSep \o column \o ".png"

categorical_path(dir, column, kind) == dir \o PathSep \o kind \o "_" \o column \o ".png"

\* Series.plot(kind, title): drawn on the current axes when a figure is open,
\* on a new figure otherwise.
categorical_plot(d, fs, column, kind) ==
  LET vc == value_counts(d, column)
      g  == plt_draw(fs, Artist(kind, <<>>, vc.counts, <<>>, vc.labels, <<>>))
  IN  on_current(g, [current(g) EXCEPT !.title = "Distribution of data across " \o column])

\* Modelled for a non-empty data frame.
categorical_run(d, dir, fs, fsys, column, kind) ==
  LET plotted == categorical_plot(d, fs, column, kind)
      shown   == on_current(plotted, [current(plotted) EXCEPT
                        !.xlabel = column, !.ylabel = "Frequency"])
      path    == categorical_path(dir, column, kind)
  IN  IF column \notin Schema THEN Raised(fs, fsys, "KeyError", 0)
      ELSE IF kind \notin PlotKinds THEN Raised(fs, fsys, "ValueError", 0)
      ELSE Returned(plt_close(shown), savefig(fsys, path, current(shown)), path, 0)

visualize_categorical(column, kind) ==
  LET res == categorical_run(df, output_directory, figs, files, column, kind)
  IN  /\ Len(df) > 0
      /\ figs' = res.figs
      /\ files' = res.files
      /\ calls' = Append(calls, Call("visualize_categorical", column, "", kind, 0, 0, res))
      /\ UNCHANGED <<df, output_directory, dirs, orig, subsample>>

(* ------------------------ visualize_ynum_to_xnum ----------------------- *)

xnum_path(dir, dependent, independent) ==
  dir \o PathSep \o dependent \o "_" \o independent \o ".png"

\* plt.scatter(x, y)
xnum_scatter(d, fs, dependent, independent) ==
  plt_draw(fs, Artist("scatter", Column(d, independent), Column(d, dependent),
                      <<>>, <<>>, <<>>))

\* x_left, x_right from x and y_bottom, y_top from y
xnum_xlim(x, cut) == <<outlier_low(x, cut), outlier_high(x, cut)>>
xnum_ylim(y, cut) == <<outlier_low(y, cut), outlier_high(y, cut)>>

\* Modelled for numeric (or unknown) columns.
xnum_run(d, dir, fs, fsys, dependent, independent, cut) ==
  LET y       == Column(d, dependent)
      x       == Column(d, independent)
      scatter == xnum_scatter(d, fs, dependent, independent)
      xlimited == on_current(scatter, [current(scatter) EXCEPT !.xlim = xnum_xlim(x, cut)])
      limited == IF cut > 0
                 THEN on_current(xlimited, [current(xlimited) EXCEPT !.ylim = xnum_ylim(y, cut)])
                 ELSE scatter
      shown   == on_current(limited, [current(limited) EXCEPT
                        !.title = "Relationship between " \o dependent \o " and " \o independent,
                        !.xlabel = independent,
                        !.ylabel = dependent])
      path    == xnum_path(dir, dependent, independent)
  IN  IF dependent \notin Schema \/ independent \notin Schema
      THEN Raised(fs, fsys, "KeyError", 0)
      ELSE IF cut > 0 /\ ~limits_defined(x, cut)
      THEN Raised(scatter, fsys, "ValueError", 0)
      ELSE IF cut > 0 /\ ~limits_defined(y, cut)
      THEN Raised(xlimited, fsys, "ValueError", 0)
      ELSE Returned(plt_close(shown), savefig(fsys, path, current(shown)), path, 0)

visualize_ynum_to_xnum(dependent_variable, independent_variable, outlier_cutoff) ==
  LET res == xnum_run(df, output_directory, figs, files, dependent_variable,
                      independent_variable, outlier_cutoff)
  IN  /\ {dependent_variable, independent_variable} \cap Schema \subseteq NumericColumns
      /\ figs' = res.figs
      /\ files' = res.files
      /\ calls' = Append(calls, Call("visualize_ynum_to_xnum", dependent_variable, independent_variable,
                      "", 0, outlier_cutoff, res))
      /\ UNCHANGED <<df, output_directory, dirs, orig, subsample>>

(* ------------------------ visualize_ynum_to_xcat ----------------------- *)

xcat_path(dir, dependent, independent, kind) ==
  dir \o PathSep \o kind \o "_" \o dependent \o "_" \o independent \o ".png"

\* df.boxplot(column, by) and DataFrame.plot(kind) over the grouped sums: both
\* open a figure of their own.
xcat_figure(d, dependent, independent, kind) ==
  LET ks     == group_keys(d, independent)
      labels == [i \in 1..Len(ks) |-> TickLabel(independent, ks[i])]
      groups == [i \in 1..Len(ks) |-> group_values(d, dependent, independent, ks[i])]
      sums   == [i \in 1..Len(ks) |-> SumSeq(groups[i])]
      artist == IF kind = "box"
                THEN Artist("box", <<>>, <<>>, <<>>, labels, groups)
                ELSE Artist(kind, <<>>, sums, <<>>, labels, <<>>)
  IN  [NewFigure EXCEPT
         !.artists = <<artist>>,
         !.title = "Relationship between " \o dependent \o " and " \o independent,
         !.xlabel = independent,
         !.ylabel = dependent]

\* Modelled for a non-empty data frame and a numeric dependent column other
\* than the independent one. The figure is the call's own: plt.cla, plt.clf and
\* plt.close(fig) dispose of it and leave any other open figure as it was.
xcat_run(d, dir, fs, fsys, dependent, independent, kind) ==
  LET path == xcat_path(dir, dependent, independent, kind)
  IN  IF independent \notin Schema THEN Raised(fs, fsys, "KeyError", 0)
      ELSE IF kind \notin PlotKinds THEN Raised(fs, fsys, "ValueError", 0)
      ELSE Returned(fs, savefig(fsys, path, xcat_figure(d, dependent, independent, kind)),
                    path, 0)

visualize_ynum_to_xcat(dependent_variable, independent_variable, kind) ==
  LET res == xcat_run(df, output_directory, figs, files, dependent_variable,
                      independent_variable, kind)
  IN  /\ Len(df) > 0
      /\ dependent_variable \in NumericColumns
      /\ dependent_variable # independent_variable
      /\ figs' = res.figs
      /\ files' = res.files
      /\ calls' = Append(calls, Call("visualize_ynum_to_xcat", dependent_variable, independent_variable,
                      kind, 0, 0, res))
      /\ UNCHANGED <<df, output_directory, dirs, orig, subsample>>

(* ------------------------------ __init__ ------------------------------- *)

\* Mutant: the fraction of rows truncated instead of rounded.
sample_size_truncated(n, p) == (p * n) \div 100

\* pandas' sample(frac): round(frac * len), python's round (ties to even)
sample_size(n, p) ==
  LET fl == (p * n) \div 100
      r  == (p * n) % 100
  IN  IF r > 50 THEN fl + 1
      ELSE IF r < 50 THEN fl
      ELSE IF fl % 2 = 0 THEN fl ELSE fl + 1

RowsAt(d, I) ==
  LET F[i \in 0..Len(d)] ==
        IF i = 0 THEN <<>>
        ELSE IF i \in I THEN Append(F[i - 1], d[i]) ELSE F[i - 1]
  IN  F[Len(d)]

\* df.sample(frac=subsample/100, random_state): that many rows, drawn without
\* replacement (any choice of rows: the seed decides)
df_sample(d, p) ==
  { RowsAt(d, I) : I \in { J \in SUBSET (1..Len(d)) : Cardinality(J) = sample_size(Len(d), p) } }

held_frames(d, p) == IF p < 100 THEN df_sample(d, p) ELSE {d}

Construct(data, dir, p, existing) ==
  /\ orig = data
  /\ subsample = p
  /\ df \in held_frames(data, p)
  /\ output_directory = dir
  /\ dirs = existing \cup {dir}
  /\ figs = <<>>
  /\ files = [f \in {} |-> NewFigure]
  /\ calls = <<>>

(* --------------------------- specifications ---------------------------- *)

SessionColumns == {"age", "color", "zip"}
SessionCutoffs == {0, 25}

\* Sessions of up to MaxCalls calls on a Visualizer built over the fixture or
\* over an empty data frame, the output directory existing already or not.
Init ==
  \E data \in {SessionFrame, <<>>}, dir \in OutputDirs, p \in {50, 100} :
     \E existing \in {{}, {dir}} : Construct(data, dir, p, existing)

Next ==
  \/ \E column \in SessionColumns, cut \in SessionCutoffs :
        Len(calls) < MaxCalls /\ visualize_numeric(column, MaxBins, cut)
  \/ \E column \in SessionColumns, kind \in Kinds :
        Len(calls) < MaxCalls /\ visualize_categorical(column, kind)
  \/ \E independent \in {"age", "zip"}, cut \in SessionCutoffs :
        Len(calls) < MaxCalls /\ visualize_ynum_to_xnum("income", independent, cut)
  \/ \E independent \in SessionColumns, kind \in Kinds :
        Len(calls) < MaxCalls /\ visualize_ynum_to_xcat("income", independent, kind)

Spec == Init /\ [][Next]_vars

\* One numeric call on every small numeric data frame and on the example.
InitNum ==
  \E data \in NumericFrames \cup {AgeExample} : Construct(data, "Output", 100, {})

NextNum ==
  \/ \E column \in ColumnNames, nbins \in (0..MaxBins) \cup {AgeExampleCall.nbins},
        cut \in CutoffPcts :
        Len(calls) < 1 /\ visualize_numeric(column, nbins, cut)
  \/ \E dependent \in NumericColumns \cup {"zip"}, independent \in NumericColumns \cup {"zip"},
        cut \in CutoffPcts :
        Len(calls) < 1 /\ visualize_ynum_to_xnum(dependent, independent, cut)

SpecNum == InitNum /\ [][NextNum]_vars

\* Construction with every subsample percentage, then one call.
InitSample ==
  \E data \in NumericFrames, p \in Percents : Construct(data, "Output", p, {})

NextSample ==
  \E kind \in PlotKinds : Len(calls) < 1 /\ visualize_categorical("age", kind)

SpecSample == InitSample /\ [][NextSample]_vars

(* ------------------------------ claims --------------------------------- *)

NumericOps == {"visualize_numeric", "visualize_ynum_to_xnum"}

\* The last call drew its histogram (it got past line 52).
DrewHist == Last.op = "visualize_numeric" /\ Last.bin_width # 0

\* The figure the last call drew on: the saved one, or the one it left open.
LastFigure == IF Last.outcome = "ok" THEN files[Last.path] ELSE current(figs)

LastHist == LastFigure.artists[Len(LastFigure.artists)]

EvenlySpaced(edges, w) == \A i \in 1..(Len(edges) - 1) : edges[i + 1] - edges[i] = w

\* matplotlib shows the values between the two limits, on an inverted axis
\* when the first limit is the larger one.
Displayed(lim, v) ==
  \/ lim[1] <= v /\ v <= lim[2]
  \/ lim[2] <= v /\ v <= lim[1]

\* C1: no chart state leaks from one call to the next, aborted calls included:
\* between calls no figure is open, and the file a call saves holds only what
\* that call drew.
C1_NoChartStateLeaks ==
  /\ figs = <<>>
  /\ Last.outcome = "ok" => Len(files[Last.path].artists) = 1

\* C2: the bin width visualize_numeric computes for a non-empty numeric column
\* of range R and nbins = N >= 1 is floor(R/N), or 1 when that floor is 0.
C2_BinWidthIsFloorOrOne ==
  DrewHist =>
    LET x == Column(df, Last.column)
        R == np_max(x) - np_min(x)
        N == Last.nbins
        w == Last.bin_width
    IN  IF R < N THEN w = 1 ELSE w * N <= R /\ R < (w + 1) * N

C2_Witness ==
  /\ DrewHist
  /\ Last.outcome = "ok"
  /\ Last.nbins = 2
  /\ Last.bin_width = 4

\* C3 as stated: the bin edges are spaced by the bin width, start strictly
\* below the column minimum and end strictly above the column maximum.
C3_EdgesEndAboveMax ==
  DrewHist =>
    LET x == Column(df, Last.column)
        e == LastHist.bins
    IN  /\ EvenlySpaced(e, Last.bin_width)
        /\ e[1] < np_min(x)
        /\ e[Len(e)] > np_max(x)

\* C3 amended: the bin edges are spaced by the bin width, start at min - 1 and
\* end at the largest such edge below max + bin width, which is at or above
\* the maximum; for ages 20..29 and nbins = 5 the edges are 19, 20, ..., 29.
C3_EdgesCoverColumn ==
  DrewHist =>
    LET x == Column(df, Last.column)
        e == LastHist.bins
    IN  /\ Len(e) >= 2
        /\ EvenlySpaced(e, Last.bin_width)
        /\ e[1] = np_min(x) - 1
        /\ np_max(x) <= e[Len(e)]
        /\ e[Len(e)] < np_max(x) + Last.bin_width
        /\ (x = [i \in 1..10 |-> 19 + i] /\ Last.nbins = 5) => e = [i \in 1..11 |-> 18 + i]

C3_Witness ==
  /\ DrewHist
  /\ Last.outcome = "ok"
  /\ Column(df, Last.column) = [i \in 1..10 |-> 19 + i]
  /\ Last.nbins = 5
  /\ LastHist.bins[Len(LastHist.bins)] = 29

\* One axis of C4: the limits are the smallest value above the lower
\* percentile and the largest value below the upper one, and no value at or
\* outside the percentiles is displayed.
AxisExcludesOutliers(lim, x, cut) ==
  LET lowP  == np_percentile100(x, cut)
      highP == np_percentile100(x, 100 - cut)
  IN  /\ lim[1] \in SeqRange(x) /\ 100 * lim[1] > lowP
      /\ \A v \in SeqRange(x) : 100 * v > lowP => lim[1] <= v
      /\ lim[2] \in SeqRange(x) /\ 100 * lim[2] < highP
      /\ \A v \in SeqRange(x) : 100 * v < highP => v <= lim[2]
      /\ \A v \in SeqRange(x) : (100 * v <= lowP \/ 100 * v >= highP) => ~Displayed(lim, v)

\* C4: for outlier_cutoff > 0 the displayed bounds of visualize_numeric (x) and
\* visualize_ynum_to_xnum (x and y, each from its own column) are the smallest
\* value above the lower percentile and the largest value below the upper
\* percentile, so the values at or outside the percentiles are not displayed.
\* Stated for the cutoffs below 0.5, the range the cutoff is meant for.
C4_LimitsExcludeOutliers ==
  (Last.outcome = "ok" /\ Last.op \in NumericOps /\ 0 < Last.cut /\ Last.cut < 50) =>
    /\ Last.op = "visualize_numeric" =>
         AxisExcludesOutliers(LastFigure.xlim, Column(df, Last.column), Last.cut)
    /\ Last.op = "visualize_ynum_to_xnum" =>
         /\ AxisExcludesOutliers(LastFigure.xlim, Column(df, Last.other), Last.cut)
         /\ AxisExcludesOutliers(LastFigure.ylim, Column(df, Last.column), Last.cut)

\* C8: the histogram of visualize_numeric never has more than nbins bins.
C8_BinsNeverExceedNbins ==
  DrewHist => Len(LastHist.bins) - 1 <= Last.nbins

\* C9: with outlier_cutoff = 0 neither method sets an axis limit, and whatever
\* the cutoff the histogram's data and bin edges are those of outlier_cutoff = 0.
C9_CutoffOnlyClipsTheView ==
  (Last.outcome = "ok" /\ Last.op \in NumericOps) =>
    /\ Last.cut = 0 => LastFigure.xlim = <<>> /\ LastFigure.ylim = <<>>
    /\ Last.op = "visualize_numeric" =>
         LET uncut == numeric_run(df, output_directory, <<>>, [f \in {} |-> NewFigure],
                                  Last.column, Last.nbins, 0)
         IN  /\ uncut.outcome = "ok"
             /\ LastFigure.artists = uncut.files[Last.path].artists
             /\ LastHist.x = Column(df, Last.column)

C9_Witness ==
  /\ Last.outcome = "ok"
  /\ Last.op = "visualize_numeric"
  /\ Last.cut > 0
  /\ LastFigure.xlim # <<>>
  /\ \E i \in 1..Len(LastHist.x) : LastHist.x[i] < LastFigure.xlim[1]

\* C10: for 0 < outlier_cutoff < 0.5 the limits a completed call sets are
\* well-ordered: left <= right and y_bottom <= y_top.
C10_LimitsWellOrdered ==
  (Last.outcome = "ok" /\ Last.op \in NumericOps /\ 0 < Last.cut /\ Last.cut < 50) =>
    /\ LastFigure.xlim[1] <= LastFigure.xlim[2]
    /\ Last.op = "visualize_ynum_to_xnum" => LastFigure.ylim[1] <= LastFigure.ylim[2]

\* The documented file of a call.
DocumentedPath(c) ==
  CASE c.op = "visualize_numeric" ->
         output_directory \o "/" \o c.column \o ".png"
    [] c.op = "visualize_categorical" ->
         output_directory \o "/" \o c.kind \o "_" \o c.column \o ".png"
    [] c.op = "visualize_ynum_to_xnum" ->
         output_directory \o "/" \o c.column \o "_" \o c.other \o ".png"
    [] c.op = "visualize_ynum_to_xcat" ->
         output_directory \o "/" \o c.kind \o "_" \o c.column \o "_" \o c.other \o ".png"

SameArguments(c, e) ==
  /\ c.op = e.op /\ c.column = e.column /\ c.other = e.other
  /\ c.kind = e.kind /\ c.nbins = e.nbins /\ c.cut = e.cut

\* C5: a successful call adds or overwrites exactly the file at its documented
\* path and touches no other; repeating a successful call with the same
\* arguments leaves the set of files as it was.
C5_OneFileAtDocumentedPath ==
  [][ (Len(calls') = Len(calls) + 1 /\ Last'.outcome = "ok") =>
        /\ Last'.path = DocumentedPath(Last')
        /\ DOMAIN files' = DOMAIN files \cup {Last'.path}
        /\ \A f \in DOMAIN files : f # Last'.path => files'[f] = files[f]
        /\ (Last.outcome = "ok" /\ SameArguments(Last, Last')) =>
              DOMAIN files' = DOMAIN files ]_vars

C5_Witness ==
  /\ Len(calls) = 2
  /\ calls[1].outcome = "ok"
  /\ calls[2].outcome = "ok"
  /\ calls[1].op = "visualize_categorical"
  /\ SameArguments(calls[1], calls[2])
  /\ DOMAIN files = {output_directory \o "/bar_color.png"}

\* C6: a call that fails writes no file, and no call, failed or not, changes
\* the data frame or the output directory.
C6_AllOrNothing ==
  [][ /\ df' = df
      /\ output_directory' = output_directory
      /\ (Len(calls') = Len(calls) + 1 /\ Last'.outcome = "error") =>
            /\ DOMAIN files' = DOMAIN files
            /\ \A f \in DOMAIN files : files'[f] = files[f] ]_vars

C6_Witness ==
  /\ Len(calls) = 2
  /\ calls[1].outcome = "ok"
  /\ Last.outcome = "error"
  /\ Last.op = "visualize_numeric"
  /\ Last.cut > 0
  /\ figs # <<>>
  /\ Cardinality(DOMAIN files) = 1

\* C7: with subsample p < 100 the Visualizer holds round(p/100 * n) of the n
\* original rows (the nearest integer, a tie going to the even one); with
\* p = 100 it holds the original data frame.
C7_SubsampleSize ==
  LET k == Len(df)
      n == Len(orig)
      d == 100 * k - subsample * n
  IN  /\ subsample = 100 => df = orig
      /\ subsample < 100 =>
           /\ -50 <= d /\ d <= 50
           /\ (d = 50 \/ d = -50) => k % 2 = 0
           /\ \E I \in SUBSET (1..n) : Cardinality(I) = k /\ df = RowsAt(orig, I)

C7_Witness ==
  /\ subsample = 50
  /\ Len(orig) = 3
  /\ Len(df) = 2

====
